---------------------------- MODULE Spec2Model ----------------------------
(* A model of the macro-based dynamic array of src/src/da.h.               *)
(*                                                                         *)
(* One array object `da` is modelled.  Its fields are the variables data,  *)
(* size, capacity, errno, file and line.  The heap is modelled by `buf`    *)
(* (the slots of the block `data` points to; empty when data = NULL) and   *)
(* `live` (the blocks that are allocated and not yet freed).  Each macro   *)
(* is an operator from a machine state (a record of those fields) to the   *)
(* set of machine states the call can end in: an allocation can fail or    *)
(* succeed, realloc can move the block or not, and slots that realloc adds *)
(* are indeterminate until written.  Iterators are pointers data + p; an         *)
(* iterator argument is written as its offset p from DA_BEGIN(da).         *)
(*                                                                         *)
(* `failed` records that an allocation has returned NULL, `fault` that a   *)
(* call has accessed memory outside the block (after which nothing is      *)
(* modelled), `last` the recorded call and `step` how many recorded calls  *)
(* the run has made.                                                       *)
EXTENDS Integers, Sequences, FiniteSets, TLC

VARIABLES data, buf, size, capacity, errno, file, line, live, failed, fault, last, step,
          config

vars == <<data, buf, size, capacity, errno, file, line, live, failed, fault, last, step,
          config>>

(***************************************************************************)
(* Bounds of the model.                                                    *)
(***************************************************************************)
MaxCap == 3
MaxVal == 1
NBlocks == 2
SizeBits == 4
PushMaxCap == 8
MaxInitial == 2
MaxFactor == 2
MaxBias == 1

(***************************************************************************)
(* Configuration of the header.                                            *)
(***************************************************************************)
DA_INITIAL_CAPACITY == 1
DA_FACTOR == 2
DA_BIAS == 0
DA_ZERO == 0

NULL == 0
Blocks == 1..NBlocks
Values == 0..MaxVal
SizeMod == 2^SizeBits

\* conversion of an integer to size_t
ToSizeT(n) == n % SizeMod

DA_SUCCESS == "DA_SUCCESS"
DA_OUT_OF_MEMORY == "DA_OUT_OF_MEMORY"
DA_OUT_OF_BOUNDS == "DA_OUT_OF_BOUNDS"
DA_INVALID_SIZE == "DA_INVALID_SIZE"
DA_INVALID_ITERATOR == "DA_INVALID_ITERATOR"

da_errno_type ==
  {DA_SUCCESS, DA_OUT_OF_MEMORY, DA_OUT_OF_BOUNDS, DA_INVALID_SIZE, DA_INVALID_ITERATOR}

Min(a, b) == IF a <= b THEN a ELSE b

(***************************************************************************)
(* The heap: memset, memmove, calloc, realloc, free on slot sequences.     *)
(* Slot i of a block (i = 0, 1, ...) is buf[i + 1].                        *)
(***************************************************************************)
Zeros(n) == [k \in 1..n |-> 0]

\* the slots realloc adds are left uninitialised: what such a slot holds is
\* indeterminate until it is written, and a read of it can give any value
Indeterminate == -1

Slots(k) == [i \in 1..k |-> Indeterminate]

Reads(x) == IF x = Indeterminate THEN Values ELSE {x}

\* memset(&b[at], 0, n * sizeof(b[0]))
Memset(b, at, n) ==
  [k \in 1..Len(b) |-> IF k - 1 >= at /\ k - 1 < at + n THEN 0 ELSE b[k]]

\* memmove(&b[dst], &b[src], n * sizeof(b[0]))
Memmove(b, dst, src, n) ==
  [k \in 1..Len(b) |-> IF k - 1 >= dst /\ k - 1 < dst + n THEN b[k - dst + src] ELSE b[k]]

\* b[i] = v
Store(b, i, v) == [b EXCEPT ![i + 1] = v]

\* malloc in the place of calloc: the fresh block is not zeroed
Calloc_Uninit(m, n) ==
  {[ptr |-> NULL, buf |-> <<>>, live |-> m.live]} \cup
  {[ptr |-> p, buf |-> Slots(n), live |-> m.live \cup {p}] : p \in Blocks \ m.live}

\* calloc(n, sizeof(T)): NULL, or a fresh zeroed block
Calloc(m, n) ==
  {[ptr |-> NULL, buf |-> <<>>, live |-> m.live]} \cup
  {[ptr |-> p, buf |-> Zeros(n), live |-> m.live \cup {p}] : p \in Blocks \ m.live}

\* realloc that leaves the old block allocated when it moves the array
Realloc_KeepsOld(m, n) ==
  LET keep == SubSeq(m.buf, 1, Min(Len(m.buf), n))
      places == (IF m.data # NULL THEN {m.data} ELSE {}) \cup (Blocks \ m.live)
  IN  {[ptr |-> NULL, buf |-> <<>>, live |-> m.live]} \cup
      {[ptr |-> p, buf |-> keep \o Slots(n - Len(keep)),
        live |-> m.live \cup {p}] : p \in places}

\* realloc(m.data, n * sizeof(T)): NULL with the old block untouched, or a
\* block of n slots (the old one resized in place, or another one with the
\* old one freed) that keeps the common prefix
Realloc(m, n) ==
  LET keep == SubSeq(m.buf, 1, Min(Len(m.buf), n))
      places == (IF m.data # NULL THEN {m.data} ELSE {}) \cup (Blocks \ m.live)
  IN  {[ptr |-> NULL, buf |-> <<>>, live |-> m.live]} \cup
      {[ptr |-> p, buf |-> keep \o Slots(n - Len(keep)),
        live |-> (m.live \ {m.data}) \cup {p}] : p \in places}

(***************************************************************************)
(* Errors.                                                                 *)
(***************************************************************************)
DA_SET_ERROR(m, err) == [m EXCEPT !.errno = err, !.file = "__FILE__", !.line = 1]

DA_CLEAR_ERROR(m) == [m EXCEPT !.errno = DA_SUCCESS, !.file = "NULL", !.line = 0]

\* the process is terminated by an access through an invalid pointer
Segv(m) == [m EXCEPT !.fault = "segv"]

(***************************************************************************)
(* Lifecycle.                                                              *)
(***************************************************************************)
DA_CREATE(m) ==
  { LET c == [m EXCEPT !.data = r.ptr, !.buf = r.buf, !.live = r.live,
                       !.size = 0, !.capacity = DA_INITIAL_CAPACITY,
                       !.errno = DA_SUCCESS, !.file = "NULL", !.line = 0]
    IN  IF r.ptr = NULL
        THEN DA_SET_ERROR([c EXCEPT !.failed = TRUE], DA_OUT_OF_MEMORY)
        ELSE c
    : r \in Calloc(m, DA_INITIAL_CAPACITY) }

\* free(p) of a block that is not allocated (p # NULL) is a double free
DoubleFree(m) == [m EXCEPT !.fault = "double free"]

\* DA_DESTROY without (da).data = NULL
DA_DESTROY_KeepsPointer(m) ==
  IF m.data # NULL /\ m.data \notin m.live
  THEN {DoubleFree(m)}
  ELSE { [m EXCEPT !.live = m.live \ {m.data}, !.buf = <<>>,
                   !.size = 0, !.capacity = 0,
                   !.errno = DA_SUCCESS, !.file = "NULL", !.line = 0] }

DA_DESTROY(m) ==
  IF m.data # NULL /\ m.data \notin m.live
  THEN {DoubleFree(m)}
  ELSE { [m EXCEPT !.live = m.live \ {m.data}, !.data = NULL, !.buf = <<>>,
                   !.size = 0, !.capacity = 0,
                   !.errno = DA_SUCCESS, !.file = "NULL", !.line = 0] }

(***************************************************************************)
(* Element access.                                                         *)
(***************************************************************************)
\* data[i] is a slot of the live block data points to
InBlock(m, i) == m.data # NULL /\ i >= 0 /\ i < Len(m.buf)

\* DA_GET with the index checked against capacity instead of size
DA_GET_CapacityBound(m, idx) ==
  IF ToSizeT(idx) >= m.capacity
  THEN {[st |-> DA_SET_ERROR(m, DA_OUT_OF_BOUNDS), ret |-> DA_ZERO]}
  ELSE IF InBlock(m, idx)
       THEN {[st |-> DA_CLEAR_ERROR(m), ret |-> v] : v \in Reads(m.buf[idx + 1])}
       ELSE {[st |-> Segv(DA_CLEAR_ERROR(m)), ret |-> DA_ZERO]}

\* the value of the expression DA_GET(da, idx) and the state it leaves
DA_GET(m, idx) ==
  IF ToSizeT(idx) >= m.size
  THEN {[st |-> DA_SET_ERROR(m, DA_OUT_OF_BOUNDS), ret |-> DA_ZERO]}
  ELSE IF InBlock(m, idx)
       THEN {[st |-> DA_CLEAR_ERROR(m), ret |-> v] : v \in Reads(m.buf[idx + 1])}
       ELSE {[st |-> Segv(DA_CLEAR_ERROR(m)), ret |-> DA_ZERO]}

\* DA_SET with the index checked against capacity instead of size
DA_SET_CapacityBound(m, idx, elem) ==
  IF ToSizeT(idx) >= m.capacity
  THEN {DA_SET_ERROR(m, DA_OUT_OF_BOUNDS)}
  ELSE IF InBlock(m, idx)
       THEN {DA_CLEAR_ERROR([m EXCEPT !.buf = Store(m.buf, idx, elem)])}
       ELSE {Segv(m)}

\* DA_SET without the reset of the error fields
DA_SET_KeepsError(m, idx, elem) ==
  IF ToSizeT(idx) >= m.size
  THEN {DA_SET_ERROR(m, DA_OUT_OF_BOUNDS)}
  ELSE IF InBlock(m, idx)
       THEN {[m EXCEPT !.buf = Store(m.buf, idx, elem)]}
       ELSE {Segv(m)}

DA_SET(m, idx, elem) ==
  IF ToSizeT(idx) >= m.size
  THEN {DA_SET_ERROR(m, DA_OUT_OF_BOUNDS)}
  ELSE IF InBlock(m, idx)
       THEN {DA_CLEAR_ERROR([m EXCEPT !.buf = Store(m.buf, idx, elem)])}
       ELSE {Segv(m)}

DA_BEGIN(m) == 0

DA_END(m) == m.size

DA_EMPTY(m) == m.size = 0

(***************************************************************************)
(* Capacity.                                                               *)
(***************************************************************************)
\* DA_RESERVE without the update of capacity
DA_RESERVE_NoCapacity(m, sz) ==
  IF sz = 0
  THEN {DA_SET_ERROR(m, DA_INVALID_SIZE)}
  ELSE IF ToSizeT(sz) <= m.capacity
       THEN {m}
       ELSE { IF r.ptr = NULL
              THEN DA_SET_ERROR([m EXCEPT !.data = NULL, !.buf = <<>>,
                                          !.live = r.live, !.failed = TRUE],
                                DA_OUT_OF_MEMORY)
              ELSE DA_CLEAR_ERROR([m EXCEPT !.data = r.ptr, !.buf = r.buf,
                                            !.live = r.live])
              : r \in Realloc(m, ToSizeT(sz)) }

DA_RESERVE(m, sz) ==
  IF sz = 0
  THEN {DA_SET_ERROR(m, DA_INVALID_SIZE)}
  ELSE IF ToSizeT(sz) <= m.capacity
       THEN {m}
       ELSE { IF r.ptr = NULL
              THEN DA_SET_ERROR([m EXCEPT !.data = NULL, !.buf = <<>>,
                                          !.live = r.live, !.failed = TRUE],
                                DA_OUT_OF_MEMORY)
              ELSE DA_CLEAR_ERROR([m EXCEPT !.data = r.ptr, !.buf = r.buf,
                                            !.live = r.live, !.capacity = sz])
              : r \in Realloc(m, ToSizeT(sz)) }

\* DA_RESIZE with the block replaced by a new zeroed one, nothing copied
ResizeAllocated_Fresh(m, sz) ==
  IF ToSizeT(sz) # m.capacity
  THEN { [m EXCEPT !.data = r.ptr,
                   !.buf = IF r.ptr = NULL THEN <<>> ELSE Zeros(sz),
                   !.live = r.live,
                   !.failed = (m.failed \/ r.ptr = NULL)]
         : r \in Realloc(m, sz) }
  ELSE {m}

\* the state of DA_RESIZE after its realloc (when it calls it)
ResizeAllocated(m, sz) ==
  IF ToSizeT(sz) # m.capacity
  THEN { [m EXCEPT !.data = r.ptr, !.buf = r.buf, !.live = r.live,
                   !.failed = (m.failed \/ r.ptr = NULL)]
         : r \in Realloc(m, sz) }
  ELSE {m}

\* DA_RESIZE that reallocates only to grow and never lowers capacity
DA_RESIZE_RetainCapacity(m, sz) ==
  IF sz = 0
  THEN {DA_SET_ERROR(m, DA_INVALID_SIZE)}
  ELSE IF ToSizeT(sz) = m.size
       THEN {DA_SET_ERROR(m, DA_SUCCESS)}
       ELSE { IF a.data = NULL
              THEN DA_SET_ERROR(a, DA_OUT_OF_MEMORY)
              ELSE LET z == IF ToSizeT(sz) > a.capacity
                            THEN Memset(a.buf, a.capacity, sz - a.capacity)
                            ELSE a.buf
                       c == IF ToSizeT(sz) > a.capacity THEN sz ELSE a.capacity
                   IN  DA_CLEAR_ERROR([a EXCEPT !.buf = z, !.capacity = c, !.size = sz])
              : a \in IF ToSizeT(sz) > m.capacity THEN ResizeAllocated(m, sz) ELSE {m} }

\* DA_RESIZE without the rejection of size zero
DA_RESIZE_NoZeroCheck(m, sz) ==
  IF ToSizeT(sz) = m.size
  THEN {DA_SET_ERROR(m, DA_SUCCESS)}
  ELSE { IF a.data = NULL
         THEN DA_SET_ERROR(a, DA_OUT_OF_MEMORY)
         ELSE DA_CLEAR_ERROR([a EXCEPT !.capacity = sz, !.size = sz])
         : a \in IF sz = 0 THEN {m} ELSE ResizeAllocated(m, sz) }

DA_RESIZE(m, sz) ==
  IF sz = 0
  THEN {DA_SET_ERROR(m, DA_INVALID_SIZE)}
  ELSE IF ToSizeT(sz) = m.size
       THEN {DA_SET_ERROR(m, DA_SUCCESS)}
       ELSE { IF a.data = NULL
              THEN DA_SET_ERROR(a, DA_OUT_OF_MEMORY)
              ELSE LET z == IF ToSizeT(sz) > a.capacity
                            THEN Memset(a.buf, a.capacity, sz - a.capacity)
                            ELSE a.buf
                   IN  DA_CLEAR_ERROR([a EXCEPT !.buf = z, !.capacity = sz, !.size = sz])
              : a \in ResizeAllocated(m, sz) }

(***************************************************************************)
(* Modifiers.                                                              *)
(***************************************************************************)
\* DA_CLEAR without the memset
DA_CLEAR_NoZero(m) ==
  IF m.size > 0 /\ m.data = NULL
  THEN {Segv(m)}
  ELSE {[m EXCEPT !.size = 0]}

DA_CLEAR(m) ==
  IF m.size > 0 /\ m.data = NULL
  THEN {Segv(m)}
  ELSE {[m EXCEPT !.buf = Memset(m.buf, 0, m.size), !.size = 0]}

\* growth by one slot instead of by the factor
GrowCap_PlusOne(c) == ToSizeT(c + 1)

\* the capacity automatic growth asks DA_RESERVE for
GrowCap(c) == ToSizeT(ToSizeT(c * DA_FACTOR) + DA_BIAS)

\* an access outside the block data points to: through NULL the process is
\* terminated; next to a live block it is terminated or goes on in state c
Wild(m, c) ==
  IF m.data = NULL THEN {Segv(m)} ELSE {Segv(m), [c EXCEPT !.fault = "oob"]}

\* DA_INSERT without the memmove: the element at the position is overwritten
InsertPlace_NoShift(g, p, elem) ==
  LET done(b) == DA_CLEAR_ERROR([g EXCEPT !.buf = b, !.size = ToSizeT(g.size + 1)])
  IN  IF InBlock(g, p) THEN {done(Store(g.buf, p, elem))} ELSE Wild(g, done(g.buf))

\* the shift, the write and the bookkeeping of DA_INSERT
InsertPlace(g, p, elem) ==
  LET n == g.capacity - 1 - p
      moves == p < DA_END(g)
      inblock == /\ InBlock(g, p)
                 /\ moves /\ n > 0 => InBlock(g, p + n)
      shifted == IF moves /\ inblock THEN Memmove(g.buf, p + 1, p, n) ELSE g.buf
      done(b) == DA_CLEAR_ERROR([g EXCEPT !.buf = b, !.size = ToSizeT(g.size + 1)])
  IN  IF inblock THEN {done(Store(shifted, p, elem))} ELSE Wild(g, done(g.buf))

\* DA_INSERT with the end iterator rejected (>= instead of >)
DA_INSERT_StrictEnd(m, p, elem) ==
  IF p < DA_BEGIN(m) \/ p >= DA_END(m)
  THEN {DA_SET_ERROR(m, DA_OUT_OF_BOUNDS)}
  ELSE IF m.size >= m.capacity
       THEN UNION { IF g.errno # DA_SUCCESS THEN {g} ELSE InsertPlace(g, p, elem)
                    : g \in DA_RESERVE(m, GrowCap(m.capacity)) }
       ELSE InsertPlace(m, p, elem)

\* DA_INSERT that grows the array before it checks the position
DA_INSERT_GrowsFirst(m, p, elem) ==
  LET place(g) == IF p < DA_BEGIN(g) \/ p > DA_END(g)
                  THEN {DA_SET_ERROR(g, DA_OUT_OF_BOUNDS)}
                  ELSE InsertPlace(g, p, elem)
  IN  IF m.size >= m.capacity
      THEN UNION { IF g.errno # DA_SUCCESS THEN {g} ELSE place(g)
                   : g \in DA_RESERVE(m, GrowCap(m.capacity)) }
      ELSE place(m)

\* DA_INSERT that grows one element early (size + 1 >= capacity)
DA_INSERT_GrowsEarly(m, p, elem) ==
  IF p < DA_BEGIN(m) \/ p > DA_END(m)
  THEN {DA_SET_ERROR(m, DA_OUT_OF_BOUNDS)}
  ELSE IF ToSizeT(m.size + 1) >= m.capacity
       THEN UNION { IF g.errno # DA_SUCCESS THEN {g} ELSE InsertPlace(g, p, elem)
                    : g \in DA_RESERVE(m, GrowCap(m.capacity)) }
       ELSE InsertPlace(m, p, elem)

DA_INSERT(m, p, elem) ==
  IF p < DA_BEGIN(m) \/ p > DA_END(m)
  THEN {DA_SET_ERROR(m, DA_OUT_OF_BOUNDS)}
  ELSE IF m.size >= m.capacity
       THEN UNION { IF g.errno # DA_SUCCESS THEN {g} ELSE InsertPlace(g, p, elem)
                    : g \in DA_RESERVE(m, GrowCap(m.capacity)) }
       ELSE InsertPlace(m, p, elem)

\* DA_ERASE without the memset of the last element
DA_ERASE_NoZero(m, p) ==
  IF p < DA_BEGIN(m) \/ p > DA_END(m)
  THEN {DA_SET_ERROR(m, DA_OUT_OF_BOUNDS)}
  ELSE LET n == ToSizeT(m.capacity - 1 - p)
           back == ToSizeT(m.size - 1)
           moves == p < DA_END(m)
           inblock == /\ InBlock(m, back)
                      /\ moves /\ n > 0 => InBlock(m, p + n)
           shifted == IF moves /\ inblock THEN Memmove(m.buf, p, p + 1, n) ELSE m.buf
           done(b) == DA_CLEAR_ERROR([m EXCEPT !.buf = b, !.size = ToSizeT(m.size - 1)])
       IN  IF inblock THEN {done(shifted)} ELSE Wild(m, done(m.buf))

\* DA_ERASE without the memmove: the last element is dropped instead
DA_ERASE_NoShift(m, p) ==
  IF p < DA_BEGIN(m) \/ p > DA_END(m)
  THEN {DA_SET_ERROR(m, DA_OUT_OF_BOUNDS)}
  ELSE LET back == ToSizeT(m.size - 1)
           done(b) == DA_CLEAR_ERROR([m EXCEPT !.buf = b, !.size = ToSizeT(m.size - 1)])
       IN  IF InBlock(m, back) THEN {done(Memset(m.buf, back, 1))} ELSE Wild(m, done(m.buf))

\* DA_ERASE with the end iterator rejected (>= instead of >)
DA_ERASE_StrictEnd(m, p) ==
  IF p < DA_BEGIN(m) \/ p >= DA_END(m)
  THEN {DA_SET_ERROR(m, DA_OUT_OF_BOUNDS)}
  ELSE LET n == ToSizeT(m.capacity - 1 - p)
           back == ToSizeT(m.size - 1)
           inblock == InBlock(m, back) /\ (n > 0 => InBlock(m, p + n))
           done(b) == DA_CLEAR_ERROR([m EXCEPT !.buf = b, !.size = ToSizeT(m.size - 1)])
       IN  IF inblock
           THEN {done(Memset(Memmove(m.buf, p, p + 1, n), back, 1))}
           ELSE Wild(m, done(m.buf))

DA_ERASE(m, p) ==
  IF p < DA_BEGIN(m) \/ p > DA_END(m)
  THEN {DA_SET_ERROR(m, DA_OUT_OF_BOUNDS)}
  ELSE LET n == ToSizeT(m.capacity - 1 - p)
           back == ToSizeT(m.size - 1)
           moves == p < DA_END(m)
           inblock == /\ InBlock(m, back)
                      /\ moves /\ n > 0 => InBlock(m, p + n)
           shifted == IF moves /\ inblock THEN Memmove(m.buf, p, p + 1, n) ELSE m.buf
           done(b) == DA_CLEAR_ERROR([m EXCEPT !.buf = b, !.size = ToSizeT(m.size - 1)])
       IN  IF inblock THEN {done(Memset(shifted, back, 1))} ELSE Wild(m, done(m.buf))

\* DA_PUSH_BACK without ++size
PushPlace_NoCount(g, elem) ==
  LET done(b) == DA_CLEAR_ERROR([g EXCEPT !.buf = b])
  IN  IF InBlock(g, g.size)
      THEN {done(Store(g.buf, g.size, elem))}
      ELSE Wild(g, done(g.buf))

\* the write and the bookkeeping of DA_PUSH_BACK
PushPlace(g, elem) ==
  LET done(b) == DA_CLEAR_ERROR([g EXCEPT !.buf = b, !.size = ToSizeT(g.size + 1)])
  IN  IF InBlock(g, g.size)
      THEN {done(Store(g.buf, g.size, elem))}
      ELSE Wild(g, done(g.buf))

\* DA_PUSH_BACK that grows one element early (size + 1 == capacity)
DA_PUSH_BACK_GrowsEarly(m, elem) ==
  IF ToSizeT(m.size + 1) >= m.capacity
  THEN UNION { IF g.errno # DA_SUCCESS THEN {g} ELSE PushPlace(g, elem)
               : g \in DA_RESERVE(m, GrowCap(m.capacity)) }
  ELSE PushPlace(m, elem)

\* DA_PUSH_BACK without the test of errno after DA_RESERVE
DA_PUSH_BACK_NoPassthrough(m, elem) ==
  IF m.size = m.capacity
  THEN UNION { PushPlace(g, elem) : g \in DA_RESERVE(m, GrowCap(m.capacity)) }
  ELSE PushPlace(m, elem)

DA_PUSH_BACK(m, elem) ==
  IF m.size = m.capacity
  THEN UNION { IF g.errno # DA_SUCCESS THEN {g} ELSE PushPlace(g, elem)
               : g \in DA_RESERVE(m, GrowCap(m.capacity)) }
  ELSE PushPlace(m, elem)

\* a declared array object before DA_CREATE; DA_CREATE overwrites every field
(***************************************************************************)
(* DA_INSERT called with an iterator variable: `it` is a pointer taken      *)
(* before the call, offset `off` into block `blk`.  The macro uses the     *)
(* argument as it stands after DA_RESERVE: when realloc has moved the      *)
(* array, `it` points into the released block, and the comparison with     *)
(* DA_END, the memmove and the write all go through it.                    *)
(***************************************************************************)
\* an access through a pointer into a released block: the process is
\* terminated, or it goes on in state c with the live block untouched
Stale(m, c) == {Segv(m), [c EXCEPT !.fault = "use after free"]}

DA_INSERT_Iter(m, it, elem) ==
  IF it.blk # m.data
  THEN Stale(m, m)
  ELSE IF it.off < DA_BEGIN(m) \/ it.off > DA_END(m)
       THEN {DA_SET_ERROR(m, DA_OUT_OF_BOUNDS)}
       ELSE LET place(g) ==
                  IF it.blk = g.data
                  THEN InsertPlace(g, it.off, elem)
                  ELSE Stale(g, DA_CLEAR_ERROR([g EXCEPT !.size = ToSizeT(g.size + 1)]))
            IN  IF m.size >= m.capacity
                THEN UNION { IF g.errno # DA_SUCCESS THEN {g} ELSE place(g)
                             : g \in DA_RESERVE(m, GrowCap(m.capacity)) }
                ELSE place(m)

(***************************************************************************)
(* The macros that read the configuration, for a translation unit that     *)
(* defines DA_INITIAL_CAPACITY, DA_FACTOR and DA_BIAS before the #include. *)
(* The header takes any definition: there is no #if or #error on them.     *)
(***************************************************************************)
Configurations ==
  [initial : 1..MaxInitial, factor : 1..MaxFactor, bias : 0..MaxBias]

GrowCapCfg(c, cfg) == ToSizeT(ToSizeT(c * cfg.factor) + cfg.bias)

DA_CREATE_Cfg(m, cfg) ==
  { LET c == [m EXCEPT !.data = r.ptr, !.buf = r.buf, !.live = r.live,
                       !.size = 0, !.capacity = cfg.initial,
                       !.errno = DA_SUCCESS, !.file = "NULL", !.line = 0]
    IN  IF r.ptr = NULL
        THEN DA_SET_ERROR([c EXCEPT !.failed = TRUE], DA_OUT_OF_MEMORY)
        ELSE c
    : r \in Calloc(m, cfg.initial) }

DA_INSERT_Cfg(m, p, elem, cfg) ==
  IF p < DA_BEGIN(m) \/ p > DA_END(m)
  THEN {DA_SET_ERROR(m, DA_OUT_OF_BOUNDS)}
  ELSE IF m.size >= m.capacity
       THEN UNION { IF g.errno # DA_SUCCESS THEN {g} ELSE InsertPlace(g, p, elem)
                    : g \in DA_RESERVE(m, GrowCapCfg(m.capacity, cfg)) }
       ELSE InsertPlace(m, p, elem)

DA_PUSH_BACK_Cfg(m, elem, cfg) ==
  IF m.size = m.capacity
  THEN UNION { IF g.errno # DA_SUCCESS THEN {g} ELSE PushPlace(g, elem)
               : g \in DA_RESERVE(m, GrowCapCfg(m.capacity, cfg)) }
  ELSE PushPlace(m, elem)

Declared ==
  [data |-> NULL, buf |-> <<>>, size |-> 0, capacity |-> 0,
   errno |-> DA_SUCCESS, file |-> "NULL", line |-> 0,
   live |-> {}, failed |-> FALSE, fault |-> "none"]

Cur ==
  [data |-> data, buf |-> buf, size |-> size, capacity |-> capacity,
   errno |-> errno, file |-> file, line |-> line,
   live |-> live, failed |-> failed, fault |-> fault]

Becomes(m) ==
  /\ data' = m.data
  /\ buf' = m.buf
  /\ size' = m.size
  /\ capacity' = m.capacity
  /\ errno' = m.errno
  /\ file' = m.file
  /\ line' = m.line
  /\ live' = m.live
  /\ failed' = m.failed
  /\ fault' = m.fault

\* the record of a call: the macro, its index, size or iterator-offset
\* argument (0 when it has none), the value of the expression (DA_GET) and
\* the size, capacity and errno of the array the call is made on
Call(op, arg, ret) ==
  [op |-> op, arg |-> arg, ret |-> ret,
   size |-> size, capacity |-> capacity, errno |-> errno]

\* no call is on record
NoCall ==
  [op |-> "none", arg |-> 0, ret |-> 0,
   size |-> 0, capacity |-> 0, errno |-> DA_SUCCESS]

\* the configuration the header is compiled with: the defaults
Configured ==
  [initial |-> DA_INITIAL_CAPACITY, factor |-> DA_FACTOR, bias |-> DA_BIAS]

Init ==
  /\ \E m \in DA_CREATE(Declared) :
        /\ data = m.data
        /\ buf = m.buf
        /\ size = m.size
        /\ capacity = m.capacity
        /\ errno = m.errno
        /\ file = m.file
        /\ line = m.line
        /\ live = m.live
        /\ failed = m.failed
        /\ fault = m.fault
  /\ last = NoCall
  /\ step = 0
  /\ config = Configured

Running == fault = "none"

\* A run is any sequence of calls.  Its calls go unrecorded (obs = FALSE),
\* except that the run can end with one recorded call (obs = TRUE), so the
\* array a recorded call leaves is also left by an unrecorded one.
Unrecorded == step = 0

\* a state in which the run makes its next call
Ready == Running /\ Unrecorded

Note(obs, c) ==
  /\ last' = IF obs THEN c ELSE NoCall
  /\ step' = IF obs THEN 1 ELSE 0
  /\ UNCHANGED config

\* arguments the calls are made with: iterator offsets and indices on both
\* sides of the array, sizes from 0
Positions == -1..(MaxCap + 1)
Sizes == 0..MaxCap

\* automatic growth stays within the bound c
GrowthWithin(c) == size < capacity \/ GrowCap(capacity) <= c

\* DA_CREATE is called on an array that holds no block (da.h: it would drop
\* the pointer of one that does)
CallCreate(obs) ==
  /\ Ready
  /\ data = NULL
  /\ \E m \in DA_CREATE(Cur) : Becomes(m)
  /\ Note(obs, Call("DA_CREATE", 0, 0))

CallDestroy(obs) ==
  /\ Ready
  /\ \E m \in DA_DESTROY(Cur) : Becomes(m)
  /\ Note(obs, Call("DA_DESTROY", 0, 0))

CallGet(obs) ==
  /\ Ready
  /\ \E idx \in Positions : \E r \in DA_GET(Cur, idx) :
        /\ Becomes(r.st)
        /\ Note(obs, Call("DA_GET", idx, r.ret))

CallSet(obs) ==
  /\ Ready
  /\ \E idx \in Positions, elem \in Values : \E m \in DA_SET(Cur, idx, elem) :
        /\ Becomes(m)
        /\ Note(obs, Call("DA_SET", idx, 0))

CallReserve(obs) ==
  /\ Ready
  /\ \E sz \in Sizes : \E m \in DA_RESERVE(Cur, sz) :
        /\ Becomes(m)
        /\ Note(obs, Call("DA_RESERVE", sz, 0))

CallResize(obs) ==
  /\ Ready
  /\ \E sz \in Sizes : \E m \in DA_RESIZE(Cur, sz) :
        /\ Becomes(m)
        /\ Note(obs, Call("DA_RESIZE", sz, 0))

CallClear(obs) ==
  /\ Ready
  /\ \E m \in DA_CLEAR(Cur) : Becomes(m)
  /\ Note(obs, Call("DA_CLEAR", 0, 0))

CallInsert(obs) ==
  /\ Ready
  /\ GrowthWithin(MaxCap)
  /\ \E p \in Positions, elem \in Values : \E m \in DA_INSERT(Cur, p, elem) :
        /\ Becomes(m)
        /\ Note(obs, Call("DA_INSERT", p, 0))

CallErase(obs) ==
  /\ Ready
  /\ \E p \in Positions : \E m \in DA_ERASE(Cur, p) :
        /\ Becomes(m)
        /\ Note(obs, Call("DA_ERASE", p, 0))

CallPushBack(obs) ==
  /\ Ready
  /\ GrowthWithin(MaxCap)
  /\ \E elem \in Values : \E m \in DA_PUSH_BACK(Cur, elem) :
        /\ Becomes(m)
        /\ Note(obs, Call("DA_PUSH_BACK", 0, 0))

Create == \E obs \in BOOLEAN : CallCreate(obs)

Destroy == \E obs \in BOOLEAN : CallDestroy(obs)

Get == \E obs \in BOOLEAN : CallGet(obs)

Set == \E obs \in BOOLEAN : CallSet(obs)

Reserve == \E obs \in BOOLEAN : CallReserve(obs)

Resize == \E obs \in BOOLEAN : CallResize(obs)

Clear == \E obs \in BOOLEAN : CallClear(obs)

Insert == \E obs \in BOOLEAN : CallInsert(obs)

Erase == \E obs \in BOOLEAN : CallErase(obs)

PushBack == \E obs \in BOOLEAN : CallPushBack(obs)

Next ==
  \/ Create
  \/ Destroy
  \/ Get
  \/ Set
  \/ Reserve
  \/ Resize
  \/ Clear
  \/ Insert
  \/ Erase
  \/ PushBack

Spec == Init /\ [][Next]_vars

(***************************************************************************)
(* The push_back loop of the tests: for (...) DA_PUSH_BACK(da, v), started *)
(* on a freshly created array; `step` counts the calls made.  The loop is  *)
(* followed until an allocation fails.                                     *)
(***************************************************************************)
LoopPush ==
  /\ Running
  /\ ~failed
  /\ step < PushMaxCap
  /\ GrowthWithin(PushMaxCap)
  /\ \E elem \in Values : \E m \in DA_PUSH_BACK(Cur, elem) : Becomes(m)
  /\ last' = Call("DA_PUSH_BACK", 0, 0)
  /\ step' = step + 1
  /\ UNCHANGED config

PushNext == LoopPush

PushSpec == Init /\ [][PushNext]_vars

(***************************************************************************)
(* The round trip client: on an array built by unrecorded push_back and    *)
(* reserve calls (step = 0) it makes a DA_INSERT that succeeds (step = 1)  *)
(* and then a DA_ERASE at the same offset (step = 2).                      *)
(***************************************************************************)
TripBuild == CallPushBack(FALSE) \/ CallReserve(FALSE)

TripInsert ==
  /\ Running
  /\ step = 0
  /\ GrowthWithin(MaxCap)
  /\ \E p \in 0..size, elem \in Values : \E m \in DA_INSERT(Cur, p, elem) :
        /\ m.errno = DA_SUCCESS
        /\ m.fault = "none"
        /\ Becomes(m)
        /\ last' = Call("DA_INSERT", p, 0)
  /\ step' = 1
  /\ UNCHANGED config

TripErase ==
  /\ Running
  /\ step = 1
  /\ \E m \in DA_ERASE(Cur, last.arg) :
        /\ Becomes(m)
        /\ last' = Call("DA_ERASE", last.arg, 0)
  /\ step' = 2
  /\ UNCHANGED config

TripNext == TripBuild \/ TripInsert \/ TripErase

TripSpec == Init /\ [][TripNext]_vars

(***************************************************************************)
(* The recycling client: after any unrecorded calls (step = 0) it calls    *)
(* DA_DESTROY (step = 1) and then DA_CREATE (step = 2).                    *)
(***************************************************************************)
CycleBuild ==
  \/ CallCreate(FALSE)
  \/ CallDestroy(FALSE)
  \/ CallGet(FALSE)
  \/ CallSet(FALSE)
  \/ CallReserve(FALSE)
  \/ CallResize(FALSE)
  \/ CallClear(FALSE)
  \/ CallInsert(FALSE)
  \/ CallErase(FALSE)
  \/ CallPushBack(FALSE)

CycleDestroy ==
  /\ Ready
  /\ \E m \in DA_DESTROY(Cur) : Becomes(m)
  /\ last' = Call("DA_DESTROY", 0, 0)
  /\ step' = 1
  /\ UNCHANGED config

CycleCreate ==
  /\ Running
  /\ step = 1
  /\ \E m \in DA_CREATE(Cur) : Becomes(m)
  /\ last' = Call("DA_CREATE", 0, 0)
  /\ step' = 2
  /\ UNCHANGED config

CycleNext == CycleBuild \/ CycleDestroy \/ CycleCreate

CycleSpec == Init /\ [][CycleNext]_vars

(***************************************************************************)
(* The client that reserves before inserting: on an array built by         *)
(* unrecorded calls (step = 0) it makes a DA_RESERVE(da, DA_SIZE(da) + k)   *)
(* that succeeds (step = 1, kept in `last`) and then inserts and pushes;   *)
(* `step` - 1 counts the insertions made since the reserve.                *)
(***************************************************************************)
RsvBuild == CallPushBack(FALSE) \/ CallResize(FALSE)

RsvReserve ==
  /\ Running
  /\ step = 0
  /\ \E k \in 1..MaxCap : \E m \in DA_RESERVE(Cur, size + k) :
        /\ size + k <= MaxCap
        /\ m.errno = DA_SUCCESS
        /\ m.fault = "none"
        /\ Becomes(m)
        /\ last' = Call("DA_RESERVE", size + k, 0)
  /\ step' = 1
  /\ UNCHANGED config

RsvInsert ==
  /\ Running
  /\ step >= 1
  /\ step <= MaxCap
  /\ GrowthWithin(MaxCap)
  /\ \E p \in Positions, elem \in Values : \E m \in DA_INSERT(Cur, p, elem) :
        Becomes(m)
  /\ UNCHANGED last
  /\ step' = step + 1
  /\ UNCHANGED config

RsvPushBack ==
  /\ Running
  /\ step >= 1
  /\ step <= MaxCap
  /\ GrowthWithin(MaxCap)
  /\ \E elem \in Values : \E m \in DA_PUSH_BACK(Cur, elem) : Becomes(m)
  /\ UNCHANGED last
  /\ step' = step + 1
  /\ UNCHANGED config

RsvNext == RsvBuild \/ RsvReserve \/ RsvInsert \/ RsvPushBack

ReservedSpec == Init /\ [][RsvNext]_vars

(***************************************************************************)
(* The client compiled under a configuration of its own: DA_CREATE, then   *)
(* insertions and push_backs, each recorded in `last`; `step` counts them. *)
(***************************************************************************)
CfgInit ==
  /\ config \in Configurations
  /\ \E m \in DA_CREATE_Cfg(Declared, config) :
        /\ data = m.data
        /\ buf = m.buf
        /\ size = m.size
        /\ capacity = m.capacity
        /\ errno = m.errno
        /\ file = m.file
        /\ line = m.line
        /\ live = m.live
        /\ failed = m.failed
        /\ fault = m.fault
  /\ last = NoCall
  /\ step = 0

CfgGrowthWithin(c) == size < capacity \/ GrowCapCfg(capacity, config) <= c

CfgInsert ==
  /\ Running
  /\ step <= MaxCap
  /\ CfgGrowthWithin(MaxCap)
  /\ \E p \in 0..size, elem \in Values :
        \E m \in DA_INSERT_Cfg(Cur, p, elem, config) :
          /\ Becomes(m)
          /\ last' = Call("DA_INSERT", p, 0)
  /\ step' = step + 1
  /\ UNCHANGED config

CfgPushBack ==
  /\ Running
  /\ step <= MaxCap
  /\ CfgGrowthWithin(MaxCap)
  /\ \E elem \in Values : \E m \in DA_PUSH_BACK_Cfg(Cur, elem, config) :
        Becomes(m)
  /\ last' = Call("DA_PUSH_BACK", 0, 0)
  /\ step' = step + 1
  /\ UNCHANGED config

CfgNext == CfgInsert \/ CfgPushBack

CfgSpec == CfgInit /\ [][CfgNext]_vars

(***************************************************************************)
(* The client that keeps an iterator: on an array built by unrecorded      *)
(* calls it takes `it = DA_BEGIN(da) + p` and then calls DA_INSERT(da, it, *)
(* elem); the offset p is kept in `last`.                                  *)
(***************************************************************************)
IterBuild == CallPushBack(FALSE) \/ CallResize(FALSE)

IterInsert ==
  /\ Running
  /\ step = 0
  /\ data # NULL
  /\ GrowthWithin(MaxCap)
  /\ \E p \in 0..capacity, elem \in Values :
        \E m \in DA_INSERT_Iter(Cur, [blk |-> data, off |-> p], elem) :
          /\ Becomes(m)
          /\ last' = Call("DA_INSERT", p, 0)
  /\ step' = 1
  /\ UNCHANGED config

IterNext == IterBuild \/ IterInsert

IterSpec == Init /\ [][IterNext]_vars

(***************************************************************************)
(* The erase loop of the error test, on an array of size >= 2 built by     *)
(* unrecorded calls:                                                       *)
(*   for (it = DA_END(da); it != DA_BEGIN(da) + 1; --it) DA_ERASE(da, it); *)
(* `last.arg` is the offset of `it` at the call just made, `step` counts   *)
(* the calls.                                                              *)
(***************************************************************************)
BackBuild == CallPushBack(FALSE) \/ CallResize(FALSE)

BackFirst ==
  /\ Running
  /\ step = 0
  /\ data # NULL
  /\ size >= 2
  /\ DA_END(Cur) # DA_BEGIN(Cur) + 1
  /\ \E m \in DA_ERASE(Cur, DA_END(Cur)) : Becomes(m)
  /\ last' = Call("DA_ERASE", DA_END(Cur), 0)
  /\ step' = 1
  /\ UNCHANGED config

BackAgain ==
  /\ Running
  /\ step >= 1
  /\ last.arg - 1 # DA_BEGIN(Cur) + 1
  /\ \E m \in DA_ERASE(Cur, last.arg - 1) : Becomes(m)
  /\ last' = Call("DA_ERASE", last.arg - 1, 0)
  /\ step' = step + 1
  /\ UNCHANGED config

BackNext == BackBuild \/ BackFirst \/ BackAgain

BackSpec == Init /\ [][BackNext]_vars

(***************************************************************************)
(* The client that creates twice: after any unrecorded calls, in which     *)
(* DA_CREATE is made only on an array without a buffer (step = 0), it      *)
(* calls DA_CREATE on the array while it owns one (step = 1).              *)
(***************************************************************************)
LeakBuild == CycleBuild

LeakCreate ==
  /\ Ready
  /\ data # NULL
  /\ \E m \in DA_CREATE(Cur) : Becomes(m)
  /\ last' = Call("DA_CREATE", 0, 0)
  /\ step' = 1
  /\ UNCHANGED config

LeakNext == LeakBuild \/ LeakCreate

LeakSpec == Init /\ [][LeakNext]_vars

(***************************************************************************)
(* Properties.                                                             *)
(***************************************************************************)
\* the logical contents of the array: the first `size` slots
Contents(m) == SubSeq(m.buf, 1, m.size)

\* a call that came back with DA_SUCCESS and no stray access
Succeeded(o) == o.errno = DA_SUCCESS /\ o.fault = "none"

\* C1: in every state reachable through the public operations, called with any
\* argument, size <= capacity.
C1_SizeWithinCapacity == size <= capacity

\* C2: after N successive DA_PUSH_BACK calls on a freshly created array, with
\* no allocation failure, size = N; along the sequence capacity never
\* decreases and capacity >= size after every call.
C2_PushSequence ==
  /\ [](~failed => (size = step /\ capacity >= size))
  /\ [][~failed' => capacity' >= capacity]_vars

C2_Witness == step = 5 /\ size = 5 /\ ~failed /\ last.op = "DA_PUSH_BACK"

\* C3: a successful DA_PUSH_BACK or DA_INSERT called with size = capacity
\* leaves capacity = floor(old capacity * DA_FACTOR) + DA_BIAS, and one called
\* with size < capacity leaves capacity unchanged; with the default
\* configuration the capacities after the 1st..5th push_back on a fresh array
\* are 1, 2, 4, 4, 8 and the size is 5 at the end.
C3_GrowthFormula ==
  /\ Running /\ GrowthWithin(PushMaxCap) =>
       LET grown == IF size = capacity
                    THEN capacity * DA_FACTOR + DA_BIAS
                    ELSE capacity
       IN  /\ \A elem \in Values : \A o \in DA_PUSH_BACK(Cur, elem) :
                Succeeded(o) => o.capacity = grown
           /\ \A p \in 0..size, elem \in Values : \A o \in DA_INSERT(Cur, p, elem) :
                Succeeded(o) => o.capacity = grown
  /\ ~failed =>
       /\ step = 1 => capacity = 1
       /\ step = 2 => capacity = 2
       /\ step = 3 => capacity = 4
       /\ step = 4 => capacity = 4
       /\ step = 5 => capacity = 8 /\ size = 5

C3_Witness == step = 5 /\ capacity = 8 /\ size = 5 /\ ~failed

\* C4: a successful DA_INSERT at offset p, 0 <= p <= n, of an array with
\* contents s of length n yields s[0..p) ++ <v> ++ s[p..n) and size n + 1,
\* with or without growth.
C4_InsertContents ==
  Ready /\ data # NULL /\ GrowthWithin(MaxCap) =>
    \A p \in 0..size, elem \in Values : \A o \in DA_INSERT(Cur, p, elem) :
      Succeeded(o) =>
        /\ o.size = size + 1
        /\ Contents(o) = SubSeq(Contents(Cur), 1, p) \o <<elem>>
                           \o SubSeq(Contents(Cur), p + 1, size)

C4_Witness ==
  /\ last.op = "DA_INSERT" /\ last.arg = 1
  /\ errno = DA_SUCCESS /\ fault = "none"
  /\ size = 3 /\ Contents(Cur) = <<1, 0, 1>>

\* C5: DA_ERASE at offset p, 0 <= p < n, of an array with contents s of length
\* n >= 1 yields s[0..p) ++ s[p+1..n) and size n - 1, leaves capacity
\* unchanged and leaves zero in the vacated slot n - 1.
C5_EraseContents ==
  Ready /\ data # NULL =>
    \A p \in 0..(size - 1) : \A o \in DA_ERASE(Cur, p) :
      /\ Succeeded(o)
      /\ o.size = size - 1
      /\ Contents(o) = SubSeq(Contents(Cur), 1, p) \o SubSeq(Contents(Cur), p + 2, size)
      /\ o.capacity = capacity
      /\ o.buf[size] = 0

C5_Witness ==
  /\ last.op = "DA_ERASE" /\ last.arg = 0
  /\ errno = DA_SUCCESS /\ fault = "none"
  /\ size = 2 /\ Contents(Cur) = <<1, 1>> /\ capacity = 3 /\ buf[3] = 0

\* C6: DA_ERASE called with the position DA_END(da), for any size, is
\* rejected: errno becomes DA_OUT_OF_BOUNDS and size, capacity and all
\* elements are unchanged.  (Stated for an array that holds a buffer and a
\* call that makes no access outside it.)
C6_EraseAtEndRejected ==
  [][last'.op = "DA_ERASE" /\ last'.arg = size /\ data # NULL /\ fault' = "none" =>
       /\ errno' = DA_OUT_OF_BOUNDS
       /\ size' = size
       /\ capacity' = capacity
       /\ buf' = buf]_vars

\* C7: DA_INSERT called with the position DA_END(da) on an array of any size
\* is never rejected; unless the allocation of the growth it needs fails,
\* errno is DA_SUCCESS, the value is the new last element, size is one more
\* and the prior elements are unchanged.
C7_InsertAtEnd ==
  Ready /\ data # NULL /\ GrowthWithin(MaxCap) =>
    \A elem \in Values : \A o \in DA_INSERT(Cur, DA_END(Cur), elem) :
      /\ o.errno \in {DA_SUCCESS, DA_OUT_OF_MEMORY}
      /\ o.errno = DA_SUCCESS =>
           /\ o.fault = "none"
           /\ o.size = size + 1
           /\ Contents(o) = Contents(Cur) \o <<elem>>

C7_Witness ==
  /\ last.op = "DA_INSERT" /\ last.arg = size - 1
  /\ errno = DA_SUCCESS /\ fault = "none"
  /\ size = 2 /\ Contents(Cur) = <<0, 1>>

\* C8: a successful DA_INSERT at offset p, 0 <= p <= size, immediately
\* followed by DA_ERASE at offset p restores the prior logical sequence: the
\* same size and the same elements in [0, size).
C8_InsertEraseRoundTrip ==
  Running /\ data # NULL /\ GrowthWithin(MaxCap) =>
    \A p \in 0..size, elem \in Values : \A o \in DA_INSERT(Cur, p, elem) :
      Succeeded(o) =>
        \A e \in DA_ERASE(o, p) :
          /\ Succeeded(e)
          /\ e.size = size
          /\ Contents(e) = Contents(Cur)

C8_Witness ==
  /\ step = 2 /\ last.op = "DA_ERASE" /\ last.arg = 1
  /\ errno = DA_SUCCESS /\ fault = "none"
  /\ size = 2 /\ Contents(Cur) = <<1, 1>>

\* C9: for every index that is not in [0, size), negative or >= size, DA_GET
\* evaluates to DA_ZERO, sets errno to DA_OUT_OF_BOUNDS and leaves size,
\* capacity and every element unchanged; the bound is size, not capacity.
C9_GetOutOfBounds ==
  Ready =>
    \A idx \in Positions : (idx < 0 \/ idx >= size) =>
      \A r \in DA_GET(Cur, idx) :
        /\ r.ret = DA_ZERO
        /\ r.st.errno = DA_OUT_OF_BOUNDS
        /\ r.st.fault = "none"
        /\ r.st.size = size
        /\ r.st.capacity = capacity
        /\ r.st.data = data
        /\ r.st.buf = buf

C9_Witness ==
  /\ last.op = "DA_GET" /\ last.arg >= size /\ last.arg < capacity
  /\ errno = DA_OUT_OF_BOUNDS /\ last.ret = DA_ZERO
  /\ data # NULL /\ buf[last.arg + 1] = Indeterminate

\* C10: for every index that is not in [0, size), negative or >= size
\* (below capacity or not), DA_SET writes nothing, leaves size and capacity
\* unchanged and sets errno to DA_OUT_OF_BOUNDS.
C10_SetOutOfBounds ==
  Ready =>
    \A idx \in Positions, elem \in Values : (idx < 0 \/ idx >= size) =>
      \A o \in DA_SET(Cur, idx, elem) :
        /\ o.errno = DA_OUT_OF_BOUNDS
        /\ o.fault = "none"
        /\ o.size = size
        /\ o.capacity = capacity
        /\ o.data = data
        /\ o.buf = buf

C10_Witness ==
  /\ last.op = "DA_SET" /\ last.arg >= size /\ last.arg < capacity
  /\ errno = DA_OUT_OF_BOUNDS
  /\ data # NULL /\ size > 0

\* C11: for every reachable array and every n > size, a successful
\* DA_RESIZE(da, n) sets size to n, leaves the elements [0, old size)
\* unchanged and leaves every element of [old size, n) zero, whether or not n
\* exceeds the old capacity.  (Stated for runs in which no allocation has
\* failed.)
C11_ResizeGrowZeroFills ==
  Ready /\ data # NULL /\ ~failed =>
    \A sz \in Sizes : sz > size =>
      \A o \in DA_RESIZE(Cur, sz) :
        Succeeded(o) =>
          /\ o.size = sz
          /\ SubSeq(o.buf, 1, size) = Contents(Cur)
          /\ \A i \in (size + 1)..sz : o.buf[i] = 0

\* C12: for every n with 0 < n < size, a DA_RESIZE(da, n) whose allocation
\* does not fail sets size to n, sets errno to DA_SUCCESS and leaves the
\* retained prefix [0, n) unchanged.
C12_ResizeShrinkKeepsPrefix ==
  Ready /\ data # NULL =>
    \A sz \in Sizes : (0 < sz /\ sz < size) =>
      \A o \in DA_RESIZE(Cur, sz) :
        o.data # NULL =>
          /\ Succeeded(o)
          /\ o.size = sz
          /\ Contents(o) = SubSeq(Contents(Cur), 1, sz)

C12_Witness ==
  /\ last.op = "DA_RESIZE" /\ last.arg = 2 /\ last.size = 3
  /\ errno = DA_SUCCESS /\ fault = "none"
  /\ size = 2 /\ Contents(Cur) = <<0, 1>>

\* C13 as claimed: for every n with 0 < n <= capacity a successful
\* DA_RESIZE(da, n) does not reallocate and leaves capacity unchanged;
\* capacity changes, to exactly n, only when n > capacity.  (Stated for runs
\* in which no allocation has failed.)
C13_ResizeRetainsCapacity ==
  Ready /\ data # NULL /\ ~failed =>
    \A sz \in Sizes : sz > 0 =>
      \A o \in DA_RESIZE(Cur, sz) :
        Succeeded(o) =>
          /\ sz <= capacity => o.capacity = capacity /\ o.data = data
          /\ sz > capacity => o.capacity = sz

\* C13 as amended: a successful DA_RESIZE(da, n) with n > 0 and n # size
\* leaves capacity = n = size, also when n is below the old capacity; the
\* buffer is kept without reallocation when n = capacity, and when n = size
\* neither the buffer nor capacity changes.
C13_ResizeFitsCapacity ==
  Ready /\ data # NULL =>
    \A sz \in Sizes : sz > 0 =>
      \A o \in DA_RESIZE(Cur, sz) :
        Succeeded(o) =>
          IF sz = size
          THEN o.capacity = capacity /\ o.data = data /\ o.buf = buf
          ELSE /\ o.capacity = sz
               /\ o.size = sz
               /\ sz = capacity => o.data = data /\ o.live = live

C13_Witness ==
  /\ last.op = "DA_RESIZE" /\ last.arg = 2 /\ last.capacity = 3 /\ last.size = 1
  /\ errno = DA_SUCCESS /\ fault = "none"
  /\ capacity = 2 /\ size = 2

\* C14: on every created array DA_CLEAR sets size to 0 (DA_EMPTY becomes
\* true), leaves capacity and the buffer unchanged (no reallocation) and
\* leaves zero in the formerly occupied slots [0, old size).
C14_ClearZeroes ==
  Ready /\ data # NULL =>
    \A o \in DA_CLEAR(Cur) :
      /\ o.fault = "none"
      /\ o.size = 0
      /\ DA_EMPTY(o)
      /\ o.capacity = capacity
      /\ o.data = data
      /\ o.live = live
      /\ Len(o.buf) = Len(buf)
      /\ \A i \in 1..size : o.buf[i] = 0

C14_Witness ==
  /\ last.op = "DA_CLEAR" /\ last.size = 2 /\ last.capacity = 3
  /\ fault = "none" /\ data # NULL
  /\ size = 0 /\ capacity = 3 /\ buf = <<0, 0, Indeterminate>>

\* C15: after any sequence of operations, DA_DESTROY followed by a
\* successful DA_CREATE leaves the state of a freshly created array: size 0,
\* capacity DA_INITIAL_CAPACITY, errno DA_SUCCESS with no source location
\* and every allocated slot zero.
C15_DestroyCreateFresh ==
  step = 2 /\ data # NULL =>
    /\ fault = "none"
    /\ size = 0
    /\ capacity = DA_INITIAL_CAPACITY
    /\ errno = DA_SUCCESS
    /\ file = "NULL"
    /\ line = 0
    /\ buf = Zeros(DA_INITIAL_CAPACITY)

C15_Witness ==
  /\ step = 2 /\ last.op = "DA_CREATE" /\ data # NULL
  /\ size = 0 /\ capacity = DA_INITIAL_CAPACITY /\ errno = DA_SUCCESS
  /\ buf = Zeros(DA_INITIAL_CAPACITY)
  /\ Cardinality(live) = 2 /\ failed

\* C16: for every n > 0, a DA_RESERVE(da, n) in which no allocation fails
\* leaves errno = DA_SUCCESS and capacity >= n, whatever errno was before;
\* when n <= capacity it changes nothing else (data, size, capacity) and a
\* prior error is cleared.  (Stated for runs in which no allocation has
\* failed.)
C16_ReserveReportsSuccess ==
  Ready /\ data # NULL /\ ~failed =>
    \A sz \in Sizes : sz > 0 =>
      \A o \in DA_RESERVE(Cur, sz) :
        o.data # NULL =>
          /\ o.errno = DA_SUCCESS
          /\ o.capacity >= sz
          /\ sz <= capacity =>
                o.data = data /\ o.size = size /\ o.capacity = capacity

\* C17: for every n > capacity, a DA_RESERVE(da, n) whose allocation
\* succeeds sets capacity to exactly n (a block of n slots), reports
\* DA_SUCCESS, and leaves size and the first size elements unchanged.
C17_ReserveGrows ==
  Ready /\ data # NULL =>
    \A sz \in Sizes : sz > capacity =>
      \A o \in DA_RESERVE(Cur, sz) :
        o.data # NULL =>
          /\ Succeeded(o)
          /\ o.capacity = sz
          /\ Len(o.buf) = sz
          /\ o.size = size
          /\ Contents(o) = Contents(Cur)

C17_Witness ==
  /\ last.op = "DA_RESERVE" /\ last.arg = 3 /\ last.capacity = 2
  /\ errno = DA_SUCCESS /\ fault = "none"
  /\ capacity = 3 /\ size = 2 /\ buf = <<1, 1, Indeterminate>>

\* C18: when the allocation inside DA_RESERVE(da, n), n > capacity, fails,
\* errno becomes DA_OUT_OF_MEMORY and the array keeps its buffer: the data
\* pointer, size, capacity and the elements are unchanged and the block is
\* still the array's.  (Stated for the first allocation failure of a run, on
\* an array that holds elements.)
C18_ReserveFailureKeepsBuffer ==
  Ready /\ data # NULL /\ ~failed /\ size > 0 =>
    \A sz \in Sizes : sz > capacity =>
      \A o \in DA_RESERVE(Cur, sz) :
        o.failed =>
          /\ o.errno = DA_OUT_OF_MEMORY
          /\ o.data = data
          /\ o.buf = buf
          /\ o.size = size
          /\ o.capacity = capacity
          /\ o.live = live

\* C19: when the allocation inside DA_CREATE fails, errno is
\* DA_OUT_OF_MEMORY and the array is in the zero state: data NULL, size 0
\* and capacity 0.  (Stated for the first allocation failure of a run.)
C19_CreateFailureZeroState ==
  Ready /\ data = NULL /\ ~failed =>
    \A o \in DA_CREATE(Cur) :
      o.failed =>
        /\ o.errno = DA_OUT_OF_MEMORY
        /\ o.data = NULL
        /\ o.size = 0
        /\ o.capacity = 0

\* the call left data, the block and its slots, size and capacity as they were
SameArray(o) ==
  /\ o.fault = "none"
  /\ o.data = data
  /\ o.buf = buf
  /\ o.live = live
  /\ o.size = size
  /\ o.capacity = capacity

\* C20: a rejected request changes only the error fields: DA_INSERT and
\* DA_ERASE with a position before DA_BEGIN or after DA_END set
\* DA_OUT_OF_BOUNDS, DA_RESERVE(da, 0) and DA_RESIZE(da, 0) set
\* DA_INVALID_SIZE, and each leaves the buffer, every element, size and
\* capacity unchanged.
C20_RejectedLeavesArray ==
  Ready =>
    /\ \A p \in Positions : (p < 0 \/ p > size) =>
          /\ \A elem \in Values : \A o \in DA_INSERT(Cur, p, elem) :
                o.errno = DA_OUT_OF_BOUNDS /\ SameArray(o)
          /\ \A o \in DA_ERASE(Cur, p) :
                o.errno = DA_OUT_OF_BOUNDS /\ SameArray(o)
    /\ \A o \in DA_RESERVE(Cur, 0) : o.errno = DA_INVALID_SIZE /\ SameArray(o)
    /\ \A o \in DA_RESIZE(Cur, 0) : o.errno = DA_INVALID_SIZE /\ SameArray(o)

C20_Witness ==
  /\ last.op = "DA_INSERT" /\ last.arg > last.size /\ last.size = 2
  /\ last.capacity = 3
  /\ errno = DA_OUT_OF_BOUNDS /\ fault = "none" /\ data # NULL
  /\ size = 2 /\ capacity = 3 /\ Contents(Cur) = <<1, 1>>

\* C21: whenever a DA_GET, DA_SET, DA_INSERT, DA_ERASE, DA_PUSH_BACK or
\* DA_RESIZE completes successfully (index or position in range, size not
\* zero, no allocation failure), errno is DA_SUCCESS afterwards, whatever
\* errno an earlier call left.
C21_SuccessClearsError ==
  Ready /\ data # NULL =>
    /\ \A idx \in 0..(size - 1) :
          /\ \A r \in DA_GET(Cur, idx) : r.st.errno = DA_SUCCESS
          /\ \A elem \in Values : \A o \in DA_SET(Cur, idx, elem) :
                o.errno = DA_SUCCESS
          /\ \A o \in DA_ERASE(Cur, idx) : o.errno = DA_SUCCESS
    /\ \A elem \in Values :
          /\ \A p \in 0..size : \A o \in DA_INSERT(Cur, p, elem) :
                o.data # NULL => o.errno = DA_SUCCESS
          /\ \A o \in DA_PUSH_BACK(Cur, elem) :
                o.data # NULL => o.errno = DA_SUCCESS
    /\ \A sz \in Sizes : sz > 0 =>
          \A o \in DA_RESIZE(Cur, sz) : o.data # NULL => o.errno = DA_SUCCESS

C21_Witness ==
  /\ last.op = "DA_SET" /\ last.arg = 1 /\ last.size = 2
  /\ last.errno = DA_OUT_OF_BOUNDS
  /\ errno = DA_SUCCESS /\ fault = "none" /\ buf[2] = 1

\* C22: from every reachable state, with any prior errno, DA_PUSH_BACK(da, v)
\* and DA_INSERT(da, DA_END(da), v) end in the same states (contents, size,
\* capacity, errno), also when growth is triggered or fails.
C22_PushBackIsInsertAtEnd ==
  Ready =>
    \A elem \in Values :
      DA_PUSH_BACK(Cur, elem) = DA_INSERT(Cur, DA_END(Cur), elem)

C22_Witness ==
  /\ last.op = "DA_PUSH_BACK" /\ last.size = 1 /\ last.capacity = 1
  /\ last.errno = DA_OUT_OF_BOUNDS
  /\ errno = DA_SUCCESS /\ fault = "none"
  /\ capacity = 2 /\ size = 2 /\ Contents(Cur) = <<0, 1>>
  /\ \E m \in DA_INSERT([Cur EXCEPT !.size = 1, !.capacity = 1, !.buf = <<0>>],
                         1, 1) :
        m.size = size /\ m.capacity = capacity /\ Contents(m) = Contents(Cur)

ZeroState(m) ==
  /\ m.data = NULL /\ m.size = 0 /\ m.capacity = 0
  /\ m.errno = DA_SUCCESS /\ m.file = "NULL" /\ m.line = 0

\* C23: DA_DESTROY called twice in a row, from any reachable state, releases
\* the buffer exactly once: the first call frees the block and leaves the
\* zero state (data NULL, size 0, capacity 0, errno cleared), the second
\* frees nothing, faults nothing and leaves the zero state again.
C23_DoubleDestroy ==
  Ready =>
    \A d1 \in DA_DESTROY(Cur) :
      /\ d1.fault = "none" /\ ZeroState(d1)
      /\ d1.live = live \ {data}
      /\ \A d2 \in DA_DESTROY(d1) :
            d2.fault = "none" /\ ZeroState(d2) /\ d2.live = d1.live

C23_Witness ==
  /\ last.op = "DA_DESTROY" /\ last.capacity = 0 /\ last.size = 0
  /\ ZeroState(Cur) /\ live = {} /\ fault = "none"

\* C24: capacity is 0 only in the destroyed state: DA_CREATE leaves capacity
\* >= 1, no call other than DA_DESTROY takes a capacity >= 1 to 0, and
\* whenever capacity is 0 the array holds no buffer and no element.
C24_CapacityZeroOnlyDestroyed ==
  /\ capacity = 0 => data = NULL /\ size = 0
  /\ Ready =>
        /\ \A o \in DA_CREATE(Cur) : o.capacity >= 1
        /\ capacity >= 1 =>
              /\ \A sz \in Sizes :
                    /\ \A o \in DA_RESERVE(Cur, sz) : o.capacity >= 1
                    /\ \A o \in DA_RESIZE(Cur, sz) : o.capacity >= 1
              /\ \A o \in DA_CLEAR(Cur) : o.capacity >= 1
              /\ \A p \in Positions :
                    /\ \A r \in DA_GET(Cur, p) : r.st.capacity >= 1
                    /\ \A o \in DA_ERASE(Cur, p) : o.capacity >= 1
                    /\ \A elem \in Values :
                          /\ \A o \in DA_SET(Cur, p, elem) : o.capacity >= 1
                          /\ \A o \in DA_INSERT(Cur, p, elem) : o.capacity >= 1
              /\ \A elem \in Values :
                    \A o \in DA_PUSH_BACK(Cur, elem) : o.capacity >= 1

C24_Witness ==
  /\ last.op = "DA_RESIZE" /\ last.arg = 0 /\ last.capacity = 2
  /\ capacity = 2 /\ data # NULL /\ errno = DA_INVALID_SIZE

\* C25: insertion reallocates only when size would exceed capacity: whenever
\* size < capacity, every DA_PUSH_BACK and DA_INSERT keeps the same buffer
\* (no block is freed or allocated) and the same capacity; and after a
\* successful DA_RESERVE(da, size + k) none of the next k insertions or
\* push_backs changes the buffer pointer, the live blocks or capacity.
C25_NoReallocationWithinCapacity ==
  /\ [](Running /\ size < capacity =>
          \A elem \in Values :
            /\ \A p \in Positions : \A o \in DA_INSERT(Cur, p, elem) :
                  o.data = data /\ o.live = live /\ o.capacity = capacity
            /\ \A o \in DA_PUSH_BACK(Cur, elem) :
                  o.data = data /\ o.live = live /\ o.capacity = capacity)
  /\ [][step >= 1 /\ step' = step + 1 /\ step <= last.arg - last.size =>
          data' = data /\ live' = live /\ capacity' = capacity]_vars

C25_Witness ==
  /\ step = 3 /\ last.op = "DA_RESERVE"
  /\ last.arg = last.size + 2 /\ last.capacity < last.arg
  /\ size = last.size + 2 /\ capacity = last.arg
  /\ errno = DA_SUCCESS /\ fault = "none"

\* C26: after DA_PUSH_BACK on an array in any state reachable through the
\* public operations, the zero state left by DA_DESTROY included, errno is
\* DA_SUCCESS or DA_OUT_OF_MEMORY (stated for runs in which no allocation
\* has failed and for calls that make no stray access).
C26_PushBackErrors ==
  Ready /\ ~failed =>
    \A elem \in Values : \A o \in DA_PUSH_BACK(Cur, elem) :
      o.fault = "none" => o.errno \in {DA_SUCCESS, DA_OUT_OF_MEMORY}

\* C27: under every configuration the header accepts, a DA_PUSH_BACK or
\* DA_INSERT made at size == capacity ends either with capacity strictly
\* greater than before or with an error and nothing written; no element is
\* ever written outside the block and size never exceeds capacity (stated
\* for runs in which no allocation has failed).
C27_GrowthRaisesCapacity ==
  ~failed =>
    /\ fault = "none"
    /\ size <= capacity
    /\ step >= 1 /\ last.size = last.capacity =>
          \/ capacity > last.capacity
          \/ errno # DA_SUCCESS /\ size = last.size

\* C28: when DA_INSERT is called at size == capacity with a position taken
\* before the call and growth moves the buffer, the position is re-expressed
\* relative to the new buffer: no access goes through the released block,
\* and on success the element is in the new buffer at the same offset
\* (stated for runs in which no allocation has failed).
C28_PositionFollowsBuffer ==
  step = 1 /\ last.op = "DA_INSERT" /\ ~failed
    /\ last.size = last.capacity /\ last.arg <= last.size =>
      /\ fault = "none"
      /\ errno = DA_SUCCESS
      /\ size = last.size + 1
      /\ buf[last.arg + 1] \in Values

ReserveError(sz) == IF sz = 0 THEN DA_INVALID_SIZE ELSE DA_OUT_OF_MEMORY

C31_AccessesWithinBlock ==
  Ready /\ ~failed =>
    /\ \A p \in Positions :
          /\ \A r \in DA_GET(Cur, p) : r.st.fault = "none"
          /\ \A o \in DA_ERASE(Cur, p) : o.fault = "none"
          /\ \A elem \in Values :
                /\ \A o \in DA_SET(Cur, p, elem) : o.fault = "none"
                /\ \A o \in DA_INSERT(Cur, p, elem) : o.fault = "none"
    /\ \A elem \in Values : \A o \in DA_PUSH_BACK(Cur, elem) : o.fault = "none"
    /\ \A sz \in Sizes : \A o \in DA_RESIZE(Cur, sz) : o.fault = "none"
    /\ \A o \in DA_CLEAR(Cur) : o.fault = "none"

\* the allocations the array can still reach: the block data points to
Owned(m) == IF m.data = NULL THEN {} ELSE {m.data}

\* C32: as long as DA_CREATE is invoked only on an array without a buffer
\* and no allocation has failed, the live allocations are exactly the block
\* the array points to: one between DA_CREATE and DA_DESTROY, none after
\* DA_DESTROY; and a DA_CREATE invoked on an array that owns a buffer leaves
\* that buffer allocated while the array no longer points to it.
C32_AllocationAccounting ==
  /\ [](step = 0 /\ ~failed => live = Owned(Cur))
  /\ [][step = 0 /\ step' = 1 =>
          /\ data \in live'
          /\ data' # data
          /\ live' = live \cup Owned(Cur')]_vars

C32_Witness ==
  /\ step = 1 /\ last.op = "DA_CREATE" /\ last.capacity = 2
  /\ ~failed /\ data # NULL /\ data \in live
  /\ \E b \in live : b # data

\* the error fields as DA_CLEAR_ERROR leaves them
ErrorCleared(m) == m.errno = DA_SUCCESS /\ m.file = "NULL" /\ m.line = 0

\* C33: the error fields are overwritten by every operation: after DA_CLEAR,
\* and after a DA_RESERVE whose argument is not zero and <= capacity, errno,
\* file and line are those of that successful call, not of an earlier failed
\* one.  (Stated for an array that holds a buffer, in runs in which no
\* allocation has failed.)
C33_ErrorOverwritten ==
  Ready /\ data # NULL /\ ~failed =>
    /\ \A o \in DA_CLEAR(Cur) : o.fault = "none" => ErrorCleared(o)
    /\ \A sz \in Sizes : sz > 0 /\ sz <= capacity =>
          \A o \in DA_RESERVE(Cur, sz) : ErrorCleared(o)

\* C34: in every reachable state the error fields are consistent: errno is
\* DA_SUCCESS if and only if file is NULL and line is 0, also after a
\* DA_RESIZE to the current size.  (Stated for runs in which no allocation
\* has failed and no stray access was made.)
C34_ErrorFieldsConsistent ==
  ~failed /\ fault = "none" =>
    (errno = DA_SUCCESS <=> file = "NULL" /\ line = 0)
=============================================================================
